---- MODULE Spec2Model ----
(* Model of the instrumented response writer of package webio            *)
(* (src/responses/write.go): the custom writer, its three capability     *)
(* variants, the handle it wraps and the tee sinks it copies to.         *)
EXTENDS Integers, Sequences, FiniteSets, TLC

VARIABLES
    \* the wrapped http.ResponseWriter (custom.w) and the request
    caps,         \* optional interfaces the handle implements
    protoMajor,   \* protocol major version given to newWriter
    hdr,          \* t.w.Header(): header name -> values, live collection
    wire,         \* headers as the handle transmitted them
    wireSent,     \* the handle has finalized (transmitted) its headers
    calls,        \* calls the handle received, in order
    body,         \* bytes the handle accepted
    \* the custom struct
    variant,      \* concrete type newWriter returned ("none" before it ran)
    start,
    code,
    duration,
    wroteHeader,
    headerName,
    teeWriter,
    \* tee sinks and clock
    teeBuf,       \* sink -> bytes the sink accepted
    teeCalls,     \* Write calls the sinks received: <<sink, bytes given>>
    now,          \* monotonic clock, in ticks
    \* observation of the calls made on the writer
    last,         \* the last call on the writer and what it returned
    nops,         \* number of calls made on the writer
    trigger,      \* the call that made wroteHeader true (op "none" before)
    elapsed,      \* now - start at the moment wroteHeader became true
    installed,    \* the sink last given to TeeWriter (Nil before)
    teeExpect,    \* sink -> chunks passed to Write while it was installed
    written,      \* all chunks passed to Write, concatenated
    failed,       \* some Write returned an error
    copied,       \* ReadFrom was called
    \* a request under a stack of Timeout middlewares (package requests)
    tStack,       \* the timeout of each Timeout in the stack, outermost first
    tWork,        \* how long the handler's work takes
    tNow,         \* clock of the request
    tPc,          \* "mw": entering the stack, "select", "unwind", "done"
    tEntered,     \* when each Timeout of the stack was entered
    tDeadline,    \* deadline of the context each Timeout made
    tStart,       \* when the handler began its select
    tBranch,      \* select case the handler took ("none" before)
    tCancels,     \* deferred cancel() calls run so far
    \* a request under AttachLogger and Log (package requests)
    lgMax,        \* maxBodySize given to Log
    lgSize,       \* maxBodySize the middleware works with
    lgAttached,   \* AttachLogger is in the stack, before Log
    lgKind,       \* concrete type of the http.ResponseWriter given to Log
    lgReqBody,    \* body of the request
    lgPc,         \* "new", "attach", "before", "handler", "done", "panic", "idle"
    lgPanic,      \* the call that panicked ("none": no panic)
    lgCtx,        \* logger in the request context: "disabled" or "own"
    lgLogger,     \* context fields of the request's logger: <<key, value>>
    lgEvents,     \* events the handler emitted, each with the fields it carried
    lgResp,       \* body the handler wrote to the writer
    lgOps,        \* calls the handler made
    \* concurrent requests under AttachLogger (package requests)
    alHeap,       \* context fields of each logger: the configured one, the copies
    alPtr,        \* logger each request's context points to ("nil": none)
    alPc,         \* "mw", "handler", "done" per request
    alEvents,     \* events each request's handler emitted
    alOps         \* calls each request's handler made

handleVars == <<caps, protoMajor, hdr, wire, wireSent, calls, body>>
customVars == <<variant, start, code, duration, wroteHeader, headerName, teeWriter>>
obsVars    == <<last, nops, trigger, elapsed, installed, teeExpect, written, failed, copied>>
teeVars == <<teeBuf, teeCalls>>
writerVars == <<handleVars, customVars, teeVars, now, obsVars>>
tmVars == <<tStack, tWork, tNow, tPc, tEntered, tDeadline, tStart, tBranch,
            tCancels>>
lgVars == <<lgMax, lgSize, lgAttached, lgKind, lgReqBody, lgPc, lgPanic,
            lgCtx, lgLogger, lgEvents, lgResp, lgOps>>
alVars == <<alHeap, alPtr, alPc, alEvents, alOps>>
mwVars == <<tmVars, lgVars, alVars>>
vars == <<writerVars, mwVars>>

----------------------------------------------------------------------------
(* Bounds *)
MaxOps   == 3      \* calls made on one writer
MaxTime  == 2      \* clock ticks
MaxProto == 3      \* protocol major versions 1..MaxProto
TicksPerMs == 2    \* clock ticks in one millisecond

MaxStack   == 2   \* Timeout middlewares in one stack
MaxTimeout == 2   \* timeouts 1..MaxTimeout, in clock ticks
MaxWork    == 3   \* the handler's work takes 1..MaxWork ticks
MaxClock   == 5   \* clock ticks of a request
MaxBody    == 4   \* bytes in a request body
MaxSize    == 4   \* maxBodySize arguments -1..MaxSize
MaxHandlerOps == 2  \* calls the handler under Log makes
MaxReqs    == 2   \* concurrent requests under AttachLogger
MaxUpdates == 2   \* calls each handler under AttachLogger makes

(* Program constants *)
defaultResponseTime == "X-Response-Time"
StatusOK == 200
defaultMaxBodySize == 8192

(* Input domains *)
Capabilities == {"Flusher", "Hijacker", "ReaderFrom", "Pusher"}
ProtoMajors  == 1..MaxProto
HeaderNameArgs == {"", "X-Latency"}
HeaderNames  == {defaultResponseTime, "X-Latency"}
Codes  == {StatusOK, 404}
Chunks == {<<"a">>, <<"b", "c">>}
Sinks  == {"s1", "s2"}
Nil    == "nil"
HandlerValue == <<"x">>

----------------------------------------------------------------------------
(* strconv.Itoa for non-negative integers, as a sequence of characters *)
DigitChars == <<"0", "1", "2", "3", "4", "5", "6", "7", "8", "9">>

RECURSIVE Itoa(_)
Itoa(n) == IF n < 10 THEN <<DigitChars[n + 1]>>
           ELSE Itoa(n \div 10) \o <<DigitChars[(n % 10) + 1]>>

(* time.Duration.Milliseconds: whole milliseconds, truncated *)
Milliseconds(d) == d \div TicksPerMs

(* the value WriteHeader adds: strconv.Itoa(dur)+"ms" *)
LatencyValue(d) == Itoa(Milliseconds(d)) \o <<"m", "s">>

(* http.Header.Add: append to the values under the key *)
HeaderAdd(h, k, v) == [h EXCEPT ![k] = Append(@, v)]

----------------------------------------------------------------------------
(* newWriter that does not test the handle for io.ReaderFrom *)
newWriter_NoReaderFrom(w, pm) ==
    LET fl == "Flusher" \in w
        ps == "Pusher" \in w
        hj == "Hijacker" \in w
    IN  IF pm = 2 /\ fl /\ ps THEN "http2Writer"
        ELSE IF pm # 2 /\ fl /\ hj THEN "httpWriter"
        ELSE IF fl THEN "flushWriter"
        ELSE "custom"

(* newWriter that does not test the handle for http.Flusher on HTTP/2 *)
newWriter_NoFlusher(w, pm) ==
    LET fl == "Flusher" \in w
        ps == "Pusher" \in w
        hj == "Hijacker" \in w
        rf == "ReaderFrom" \in w
    IN  IF pm = 2 /\ ps THEN "http2Writer"
        ELSE IF pm # 2 /\ fl /\ hj /\ rf THEN "httpWriter"
        ELSE IF fl THEN "flushWriter"
        ELSE "custom"

(* newWriter: the concrete type chosen from the handle's interfaces *)
newWriter(w, pm) ==
    LET fl == "Flusher" \in w
        ps == "Pusher" \in w
        hj == "Hijacker" \in w
        rf == "ReaderFrom" \in w
    IN  IF pm = 2 /\ fl /\ ps THEN "http2Writer"
        ELSE IF pm # 2 /\ fl /\ hj /\ rf THEN "httpWriter"
        ELSE IF fl THEN "flushWriter"
        ELSE "custom"

(* method set of each concrete type beyond CustomWriter *)
Exposed(v) ==
    CASE v = "http2Writer" -> {"Flusher", "Pusher"}
      [] v = "httpWriter"  -> {"Flusher", "Hijacker", "ReaderFrom"}
      [] v = "flushWriter" -> {"Flusher"}
      [] OTHER             -> {}

----------------------------------------------------------------------------
(* what the last call on the writer was given and what it returned *)
Call(op, c, buf, n, err) ==
    [op |-> op, c |-> c, buf |-> buf, n |-> n, err |-> err]

NoCall == Call("none", 0, <<>>, 0, Nil)

(* the handle transmits its headers on the first call that sends output *)
Transmit(h) == IF wireSent THEN wire ELSE h

(* WriteHeader without the wroteHeader test: every call is forwarded *)
WriteHeaderResult_NoGuard(c) ==
    LET d == now - start
        h == HeaderAdd(hdr, headerName, LatencyValue(d))
    IN  [wroteHeader |-> TRUE, duration |-> d, code |-> c, hdr |-> h,
         calls |-> Append(calls, <<"WriteHeader", c>>),
         wire |-> Transmit(h), wireSent |-> TRUE]

(* custom.WriteHeader(c): the fields and the handle after the call *)
WriteHeaderResult(c) ==
    IF ~wroteHeader
    THEN LET d == now - start
             h == HeaderAdd(hdr, headerName, LatencyValue(d))
         IN  [wroteHeader |-> TRUE, duration |-> d, code |-> c, hdr |-> h,
              calls |-> Append(calls, <<"WriteHeader", c>>),
              wire |-> Transmit(h), wireSent |-> TRUE]
    ELSE [wroteHeader |-> wroteHeader, duration |-> duration, code |-> code,
          hdr |-> hdr, calls |-> calls, wire |-> wire, wireSent |-> wireSent]

(* the call that moved the writer out of the header-pending state *)
Triggered(op, c) ==
    /\ trigger' = IF wroteHeader THEN trigger ELSE [op |-> op, c |-> c]
    /\ elapsed' = IF wroteHeader THEN elapsed ELSE now - start

(* no request is in the Timeout stack *)
TmIdle ==
    /\ tStack = <<>>
    /\ tWork = 0
    /\ tNow = 0
    /\ tPc = "done"
    /\ tEntered = <<>>
    /\ tDeadline = <<>>
    /\ tStart = 0
    /\ tBranch = "none"
    /\ tCancels = 0

(* no request is in the Log stack *)
LgIdle ==
    /\ lgMax = 0
    /\ lgSize = 0
    /\ lgAttached = FALSE
    /\ lgKind = "plain"
    /\ lgReqBody = <<>>
    /\ lgPc = "idle"
    /\ lgPanic = "none"
    /\ lgCtx = "disabled"
    /\ lgLogger = <<>>
    /\ lgEvents = <<>>
    /\ lgResp = <<>>
    /\ lgOps = 0

(* context fields of the logger given to AttachLogger *)
BaseFields == <<<<"time", <<"t">>>>>>

Reqs == 1..MaxReqs

(* the context of a request holds no logger *)
NoLogger == -1

(* no request under AttachLogger alone *)
AlIdle ==
    /\ alHeap = [c \in {0} |-> BaseFields]
    /\ alPtr = [i \in Reqs |-> NoLogger]
    /\ alPc = [i \in Reqs |-> "idle"]
    /\ alEvents = [i \in Reqs |-> <<>>]
    /\ alOps = [i \in Reqs |-> 0]

MwIdle == TmIdle /\ LgIdle /\ AlIdle

Init ==
    /\ MwIdle
    /\ caps \in SUBSET Capabilities
    /\ protoMajor \in ProtoMajors
    /\ hdr = [k \in HeaderNames |-> <<>>]
    /\ wire = [k \in HeaderNames |-> <<>>]
    /\ wireSent = FALSE
    /\ calls = <<>>
    /\ body = <<>>
    /\ variant = "none"
    /\ start = 0
    /\ code = 0
    /\ duration = 0
    /\ wroteHeader = FALSE
    /\ headerName = ""
    /\ teeWriter = Nil
    /\ teeBuf = [s \in Sinks |-> <<>>]
    /\ teeCalls = <<>>
    /\ now = 0
    /\ last = NoCall
    /\ nops = 0
    /\ trigger = [op |-> "none", c |-> 0]
    /\ elapsed = 0
    /\ installed = Nil
    /\ teeExpect = [s \in Sinks |-> <<>>]
    /\ written = <<>>
    /\ failed = FALSE
    /\ copied = FALSE

(* time passes *)
Tick ==
    /\ UNCHANGED mwVars
    /\ now < MaxTime
    /\ now' = now + 1
    /\ UNCHANGED <<handleVars, customVars, teeVars, obsVars>>

(* newWriter(w, protoMajor, headerName) *)
NewWriter(hn) ==
    /\ UNCHANGED mwVars
    /\ variant = "none"
    /\ variant' = newWriter(caps, protoMajor)
    /\ start' = now
    /\ headerName' = IF hn = "" THEN defaultResponseTime ELSE hn
    /\ UNCHANGED <<handleVars, code, duration, wroteHeader, teeWriter,
                   teeVars, now, obsVars>>

(* custom.WriteHeader(c) *)
WriteHeader(c) ==
    /\ UNCHANGED mwVars
    /\ variant # "none" /\ nops < MaxOps
    /\ LET r == WriteHeaderResult(c)
       IN  /\ wroteHeader' = r.wroteHeader
           /\ duration' = r.duration
           /\ code' = r.code
           /\ hdr' = r.hdr
           /\ calls' = r.calls
           /\ wire' = r.wire
           /\ wireSent' = r.wireSent
    /\ Triggered("WriteHeader", c)
    /\ last' = Call("WriteHeader", c, <<>>, 0, Nil)
    /\ nops' = nops + 1
    /\ UNCHANGED <<caps, protoMajor, body, variant, start, headerName,
                   teeWriter, teeVars, now, installed, teeExpect, written, failed, copied>>

(* Write that only marks the header written, as Flush does *)
ImplicitHeader_MarkOnly ==
    [wroteHeader |-> TRUE, duration |-> duration, code |-> code,
     hdr |-> hdr, calls |-> calls, wire |-> wire, wireSent |-> wireSent]

(* custom.Write: "if !t.wroteHeader { t.WriteHeader(http.StatusOK) }" *)
ImplicitHeader == WriteHeaderResult(StatusOK)

(* Write that copies to the tee sink whatever the handle returned *)
TeeCalled_Always(uerr) == teeWriter # Nil

(* custom.Write: the tee sink is written only after a successful write   *)
(* to the handle, and only when one is installed                         *)
TeeCalled(uerr) == uerr = Nil /\ teeWriter # Nil

(* custom.Write: buf[:n] *)
TeeArg(buf, n) == SubSeq(buf, 1, n)

(* what a sink keeps of the bytes it is given: all of them, or the     *)
(* first tn when it fails                                               *)
Accepted(arg, tn, terr) ==
    IF terr = Nil \/ tn >= Len(arg) THEN arg ELSE SubSeq(arg, 1, tn)

(* custom.Write(buf); the handle accepts un bytes and returns uerr, the  *)
(* tee sink (when called) accepts tn bytes and returns terr              *)
WriteOutcome(buf, un, uerr, tn, terr) ==
    LET r == ImplicitHeader
    IN  /\ wroteHeader' = r.wroteHeader
        /\ duration' = r.duration
        /\ code' = r.code
        /\ hdr' = r.hdr
        /\ calls' = Append(r.calls, <<"Write", Len(buf)>>)
        /\ wire' = r.wire
        /\ wireSent' = r.wireSent
        /\ body' = body \o SubSeq(buf, 1, un)
        /\ IF TeeCalled(uerr)
           THEN /\ teeCalls' = Append(teeCalls, <<teeWriter, TeeArg(buf, un)>>)
                /\ teeBuf' = [teeBuf EXCEPT
                                ![teeWriter] = @ \o Accepted(TeeArg(buf, un), tn, terr)]
                /\ last' = Call("Write", 0, buf, un, terr)
                /\ failed' = (failed \/ terr # Nil)
           ELSE /\ UNCHANGED teeVars
                /\ last' = Call("Write", 0, buf, un, uerr)
                /\ failed' = (failed \/ uerr # Nil)

Write(buf) ==
    /\ UNCHANGED mwVars
    /\ variant # "none" /\ nops < MaxOps
    /\ \E un \in 0..Len(buf), uerr \in {Nil, "werr"} :
         /\ uerr = Nil => un = Len(buf)
         /\ \E tn \in 0..Len(buf), terr \in {Nil, "terr"} :
              /\ terr = Nil => tn = Len(buf)
              /\ (uerr # Nil \/ teeWriter = Nil) => terr = Nil
              /\ WriteOutcome(buf, un, uerr, tn, terr)
    /\ Triggered("Write", 0)
    /\ nops' = nops + 1
    /\ teeExpect' = IF installed # Nil
                    THEN [teeExpect EXCEPT ![installed] = @ \o buf]
                    ELSE teeExpect
    /\ written' = written \o buf
    /\ UNCHANGED <<caps, protoMajor, variant, start, headerName, teeWriter,
                   now, installed, copied>>

(* TeeWriter that keeps a sink already installed *)
TeeWriter_KeepFirst(w) ==
    /\ UNCHANGED mwVars
    /\ variant # "none" /\ nops < MaxOps
    /\ teeWriter' = IF teeWriter = Nil THEN w ELSE teeWriter
    /\ last' = Call("TeeWriter", 0, <<>>, 0, Nil)
    /\ nops' = nops + 1
    /\ installed' = w
    /\ UNCHANGED <<handleVars, variant, start, code, duration, wroteHeader,
                   headerName, teeVars, now, trigger, elapsed, teeExpect,
                   written, failed, copied>>

(* custom.TeeWriter(w) *)
TeeWriter(w) ==
    /\ UNCHANGED mwVars
    /\ variant # "none" /\ nops < MaxOps
    /\ teeWriter' = w
    /\ last' = Call("TeeWriter", 0, <<>>, 0, Nil)
    /\ nops' = nops + 1
    /\ installed' = w
    /\ UNCHANGED <<handleVars, variant, start, code, duration, wroteHeader,
                   headerName, teeVars, now, trigger, elapsed, teeExpect,
                   written, failed, copied>>

(* custom.Header(): the handler adds a value of its own under the       *)
(* latency header name of the live collection                           *)
Header ==
    /\ UNCHANGED mwVars
    /\ variant # "none" /\ nops < MaxOps
    /\ hdr' = HeaderAdd(hdr, headerName, HandlerValue)
    /\ last' = Call("Header", 0, <<>>, 0, Nil)
    /\ nops' = nops + 1
    /\ UNCHANGED <<caps, protoMajor, wire, wireSent, calls, body, customVars,
                   teeVars, now, trigger, elapsed, installed, teeExpect, written, failed,
                   copied>>

(* Flush that forwards the flush and leaves wroteHeader alone *)
Flush_NoMark ==
    /\ UNCHANGED mwVars
    /\ variant \in {"flushWriter", "httpWriter", "http2Writer"}
    /\ nops < MaxOps
    /\ calls' = Append(calls, <<"Flush", 0>>)
    /\ wire' = Transmit(hdr)
    /\ wireSent' = TRUE
    /\ last' = Call("Flush", 0, <<>>, 0, Nil)
    /\ nops' = nops + 1
    /\ UNCHANGED <<caps, protoMajor, hdr, body, customVars, teeVars, now,
                   trigger, elapsed, installed, teeExpect, written, failed,
                   copied>>

(* flushWriter.Flush, httpWriter.Flush, http2Writer.Flush *)
Flush ==
    /\ UNCHANGED mwVars
    /\ variant \in {"flushWriter", "httpWriter", "http2Writer"}
    /\ nops < MaxOps
    /\ wroteHeader' = TRUE
    /\ calls' = Append(calls, <<"Flush", 0>>)
    /\ wire' = Transmit(hdr)
    /\ wireSent' = TRUE
    /\ Triggered("Flush", 0)
    /\ last' = Call("Flush", 0, <<>>, 0, Nil)
    /\ nops' = nops + 1
    /\ UNCHANGED <<caps, protoMajor, hdr, body, variant, start, code,
                   duration, headerName, teeWriter, teeVars, now, installed, teeExpect,
                   written, failed, copied>>

(* Hijack that marks the header written, as Flush does *)
Hijack_MarksHeader ==
    /\ UNCHANGED mwVars
    /\ variant = "httpWriter" /\ nops < MaxOps
    /\ wroteHeader' = TRUE
    /\ calls' = Append(calls, <<"Hijack", 0>>)
    /\ Triggered("Hijack", 0)
    /\ last' = Call("Hijack", 0, <<>>, 0, Nil)
    /\ nops' = nops + 1
    /\ UNCHANGED <<caps, protoMajor, hdr, wire, wireSent, body, variant,
                   start, code, duration, headerName, teeWriter, teeVars, now,
                   installed, teeExpect, written, failed, copied>>

(* httpWriter.Hijack *)
Hijack ==
    /\ UNCHANGED mwVars
    /\ variant = "httpWriter" /\ nops < MaxOps
    /\ calls' = Append(calls, <<"Hijack", 0>>)
    /\ last' = Call("Hijack", 0, <<>>, 0, Nil)
    /\ nops' = nops + 1
    /\ UNCHANGED <<caps, protoMajor, hdr, wire, wireSent, body, customVars,
                   teeVars, now, trigger, elapsed, installed, teeExpect, written, failed,
                   copied>>

(* http2Writer.Push *)
Push ==
    /\ UNCHANGED mwVars
    /\ variant = "http2Writer" /\ nops < MaxOps
    /\ calls' = Append(calls, <<"Push", 0>>)
    /\ last' = Call("Push", 0, <<>>, 0, Nil)
    /\ nops' = nops + 1
    /\ UNCHANGED <<caps, protoMajor, hdr, wire, wireSent, body, customVars,
                   teeVars, now, trigger, elapsed, installed, teeExpect, written, failed,
                   copied>>

(* ReadFrom that only marks the header written, as Flush does *)
ReadFromHeader_MarkOnly ==
    [wroteHeader |-> TRUE, duration |-> duration, code |-> code,
     hdr |-> hdr, calls |-> calls, wire |-> Transmit(hdr), wireSent |-> TRUE]

(* httpWriter.ReadFrom: "if !h1.wroteHeader { h1.WriteHeader(http.StatusOK) }" *)
ReadFromHeader == WriteHeaderResult(StatusOK)

(* ReadFrom that copies the bytes to the tee sink as Write does *)
ReadFrom_Tee(r) ==
    /\ UNCHANGED mwVars
    /\ variant = "httpWriter" /\ nops < MaxOps
    /\ \E rn \in 0..Len(r), rerr \in {Nil, "rerr"} :
         /\ rerr = Nil => rn = Len(r)
         /\ LET h == ReadFromHeader
            IN  /\ wroteHeader' = h.wroteHeader
                /\ duration' = h.duration
                /\ code' = h.code
                /\ hdr' = h.hdr
                /\ calls' = Append(h.calls, <<"ReadFrom", Len(r)>>)
                /\ wire' = h.wire
                /\ wireSent' = h.wireSent
         /\ body' = body \o SubSeq(r, 1, rn)
         /\ last' = Call("ReadFrom", 0, r, rn, rerr)
         /\ IF teeWriter # Nil
            THEN /\ teeCalls' = Append(teeCalls, <<teeWriter, SubSeq(r, 1, rn)>>)
                 /\ teeBuf' = [teeBuf EXCEPT ![teeWriter] = @ \o SubSeq(r, 1, rn)]
            ELSE UNCHANGED teeVars
    /\ Triggered("ReadFrom", 0)
    /\ nops' = nops + 1
    /\ copied' = TRUE
    /\ UNCHANGED <<caps, protoMajor, variant, start, headerName, teeWriter,
                   now, installed, teeExpect, written, failed>>

(* httpWriter.ReadFrom(r): the handle copies rn bytes of r, returns rerr *)
ReadFrom(r) ==
    /\ UNCHANGED mwVars
    /\ variant = "httpWriter" /\ nops < MaxOps
    /\ \E rn \in 0..Len(r), rerr \in {Nil, "rerr"} :
         /\ rerr = Nil => rn = Len(r)
         /\ LET h == ReadFromHeader
            IN  /\ wroteHeader' = h.wroteHeader
                /\ duration' = h.duration
                /\ code' = h.code
                /\ hdr' = h.hdr
                /\ calls' = Append(h.calls, <<"ReadFrom", Len(r)>>)
                /\ wire' = h.wire
                /\ wireSent' = h.wireSent
         /\ body' = body \o SubSeq(r, 1, rn)
         /\ last' = Call("ReadFrom", 0, r, rn, rerr)
    /\ Triggered("ReadFrom", 0)
    /\ nops' = nops + 1
    /\ copied' = TRUE
    /\ UNCHANGED <<caps, protoMajor, variant, start, headerName, teeWriter,
                   teeVars, now, installed, teeExpect, written, failed>>

Next ==
    \/ Tick
    \/ \E hn \in HeaderNameArgs : NewWriter(hn)
    \/ \E c \in Codes : WriteHeader(c)
    \/ \E buf \in Chunks : Write(buf)
    \/ \E w \in Sinks \cup {Nil} : TeeWriter(w)
    \/ Header
    \/ Flush
    \/ Hijack
    \/ Push
    \/ \E r \in Chunks : ReadFrom(r)

Spec == Init /\ [][Next]_vars

TypeOK ==
    /\ variant \in {"none", "custom", "flushWriter", "httpWriter", "http2Writer"}
    /\ wroteHeader \in BOOLEAN
    /\ code \in Codes \cup {0}
    /\ duration \in 0..MaxTime
    /\ teeWriter \in Sinks \cup {Nil}

----------------------------------------------------------------------------
(* Observations on the calls the handle received *)
OutputOps == {"WriteHeader", "Write", "Flush", "ReadFrom"}

(* positions in calls of the calls named op *)
CallsOf(op) == {i \in DOMAIN calls : calls[i][1] = op}

(* positions in calls of the calls that send output to the client *)
Outputs == {i \in DOMAIN calls : calls[i][1] \in OutputOps}

(* C1: when the call that takes the writer out of the header-pending    *)
(* state is a Write (no WriteHeader, Flush or ReadFrom before it), the  *)
(* handle receives WriteHeader(200) before any other output and before  *)
(* every body byte, and Code() is 200 after that Write and ever after.  *)
C1_ImplicitOK ==
    trigger.op = "Write" =>
        /\ code = StatusOK
        /\ wroteHeader
        /\ \E i \in Outputs :
              /\ calls[i] = <<"WriteHeader", StatusOK>>
              /\ \A j \in Outputs : i <= j
        /\ CallsOf("Write") # {}

C1_Witness ==
    /\ trigger.op = "Write"
    /\ Cardinality(CallsOf("Write")) >= 2
    /\ last.op = "Write"
    /\ Len(body) >= 2
    /\ code = StatusOK

(* C2: first WriteHeader wins. When the first call that takes the       *)
(* writer out of the header-pending state is WriteHeader(c), Code() is  *)
(* c after every later call and the handle received WriteHeader exactly *)
(* once, with code c.                                                   *)
C2_FirstHeaderWins ==
    trigger.op = "WriteHeader" =>
        /\ code = trigger.c
        /\ Cardinality(CallsOf("WriteHeader")) = 1
        /\ \A i \in CallsOf("WriteHeader") : calls[i] = <<"WriteHeader", trigger.c>>

C2_Witness ==
    /\ trigger.op = "WriteHeader"
    /\ last.op = "WriteHeader"
    /\ last.c # trigger.c
    /\ code = trigger.c
    /\ nops >= 3

(* a header value of the form "<integer>ms" *)
IsLatency(v) ==
    /\ Len(v) >= 3
    /\ v[Len(v) - 1] = "m" /\ v[Len(v)] = "s"
    /\ \A i \in 1..(Len(v) - 2) : \E d \in DOMAIN DigitChars : v[i] = DigitChars[d]

(* the latency values among the transmitted values of the latency header *)
WireLatency == {i \in DOMAIN wire[headerName] : IsLatency(wire[headerName][i])}

(* C3: at the moment the handle finalizes its headers, the transmitted  *)
(* header collection holds exactly one "<integer>ms" value under the    *)
(* latency header name, next to the values the handler had set there.   *)
C3_LatencyOnce ==
    wireSent =>
        /\ Cardinality(WireLatency) = 1
        /\ \A i \in DOMAIN wire[headerName] :
              i \notin WireLatency => wire[headerName][i] = HandlerValue

(* C4: a Flush on a writer in the header-pending state performs the     *)
(* implicit WriteHeader(200) first: the handle receives WriteHeader(200)*)
(* before its Flush, Code() is 200, Duration() is the time elapsed and  *)
(* the latency header has been added.                                   *)
C4_FlushImplicitHeader ==
    trigger.op = "Flush" =>
        /\ code = StatusOK
        /\ duration = elapsed
        /\ \E i \in CallsOf("WriteHeader") :
              /\ calls[i] = <<"WriteHeader", StatusOK>>
              /\ \A j \in CallsOf("Flush") : i < j
        /\ \E i \in DOMAIN hdr[headerName] : IsLatency(hdr[headerName][i])

(* C5: as long as no Write has failed, every tee sink holds exactly the *)
(* chunks passed to Write while it was installed, in call order, and    *)
(* (when the body was sent with Write alone) the handle holds all the   *)
(* chunks in the same order.                                            *)
C5_TeeOrdering ==
    ~failed =>
        /\ \A s \in Sinks : teeBuf[s] = teeExpect[s]
        /\ ~copied => body = written

C5_Witness ==
    /\ ~failed
    /\ Cardinality(CallsOf("Write")) = 2
    /\ \E s \in Sinks : teeBuf[s] # <<>> /\ teeBuf[s] # written
    /\ body = written

(* a step that is a call of Write on the writer *)
WriteStep == nops' = nops + 1 /\ last'.op = "Write"

(* C6: a Write forwards to the handle once and never retries. When the  *)
(* handle returns an error, Write returns that error with the handle's  *)
(* byte count and no tee sink receives anything. When the handle        *)
(* succeeds with n bytes and a tee sink is installed, that sink is      *)
(* given exactly the first n bytes of the chunk; if the sink fails,     *)
(* Write returns the sink's error together with n, the n bytes being    *)
(* already in the handle.                                               *)
C6_WriteErrors ==
    [][WriteStep =>
        /\ Cardinality(CallsOf("Write"))' = Cardinality(CallsOf("Write")) + 1
        /\ body' = body \o SubSeq(last'.buf, 1, last'.n)
        /\ last'.err = "werr" => UNCHANGED teeVars
        /\ (last'.err # "werr" /\ installed # Nil) =>
              /\ last'.n = Len(last'.buf)
              /\ teeCalls' = Append(teeCalls, <<installed, SubSeq(last'.buf, 1, last'.n)>>)
              /\ \A s \in Sinks \ {installed} : teeBuf'[s] = teeBuf[s]
        /\ last'.err = "terr" => installed # Nil
        /\ installed = Nil => UNCHANGED teeVars
      ]_vars

C6_Witness ==
    /\ last.op = "Write"
    /\ last.err = "terr"
    /\ last.n = 2
    /\ teeCalls # <<>>
    /\ teeBuf[teeCalls[Len(teeCalls)][1]] # teeExpect[teeCalls[Len(teeCalls)][1]]

(* C7 as claimed: http2Writer iff major = 2 with flush and push;        *)
(* otherwise httpWriter iff major = 1 with flush, hijack and bulk-copy; *)
(* otherwise flushWriter iff flush; otherwise the base writer.          *)
C7_TableAsClaimed ==
    variant # "none" =>
        LET fl == "Flusher" \in caps
            h2 == protoMajor = 2 /\ fl /\ "Pusher" \in caps
            h1 == protoMajor = 1 /\ fl /\ "Hijacker" \in caps /\ "ReaderFrom" \in caps
        IN  /\ variant = "http2Writer" <=> h2
            /\ variant = "httpWriter"  <=> (~h2 /\ h1)
            /\ variant = "flushWriter" <=> (~h2 /\ ~h1 /\ fl)
            /\ variant = "custom"      <=> (~h2 /\ ~h1 /\ ~fl)

(* C7 amended: the http1-full row applies to every major version other  *)
(* than 2, not to major version 1 alone.                                *)
C7_Table ==
    variant # "none" =>
        LET fl == "Flusher" \in caps
            h2 == protoMajor = 2 /\ fl /\ "Pusher" \in caps
            h1 == protoMajor # 2 /\ fl /\ "Hijacker" \in caps /\ "ReaderFrom" \in caps
        IN  /\ variant = "http2Writer" <=> h2
            /\ variant = "httpWriter"  <=> (~h2 /\ h1)
            /\ variant = "flushWriter" <=> (~h2 /\ ~h1 /\ fl)
            /\ variant = "custom"      <=> (~h2 /\ ~h1 /\ ~fl)

C7_Witness ==
    /\ variant = "httpWriter"
    /\ protoMajor \notin {1, 2}
    /\ {"Flusher", "Hijacker", "ReaderFrom"} \subseteq caps

C9_Duration ==
    /\ ~wroteHeader => duration = 0
    /\ wroteHeader => duration = elapsed

(* a step in which the handle receives a Hijack or a Push *)
HijackOrPushStep ==
    \E op \in {"Hijack", "Push"} : calls' = Append(calls, <<op, 0>>)

(* C10: a Hijack or Push is forwarded and changes nothing else: the     *)
(* header stays pending (or sent), Code(), Duration(), the header       *)
(* collection and the tee sinks are as before; and a Write on a writer  *)
(* still header-pending after a Hijack or Push performs the implicit    *)
(* WriteHeader(200).                                                    *)
C10_HijackPushNoHeader ==
    [][/\ HijackOrPushStep =>
            UNCHANGED <<wroteHeader, code, duration, hdr, wire, wireSent,
                        body, teeWriter, teeVars, trigger>>
       /\ (WriteStep /\ trigger.op = "none"
             /\ (CallsOf("Hijack") \cup CallsOf("Push")) # {}) =>
            /\ code' = StatusOK
            /\ wroteHeader'
            /\ calls' = calls \o <<<<"WriteHeader", StatusOK>>, <<"Write", Len(last'.buf)>>>>
      ]_vars

C10_Witness ==
    /\ Len(calls) = 3
    /\ calls[1][1] \in {"Hijack", "Push"}
    /\ calls[2] = <<"WriteHeader", StatusOK>>
    /\ calls[3][1] = "Write"
    /\ trigger.op = "Write"
    /\ code = StatusOK

(* C17: when the call that takes the writer out of the header-pending   *)
(* state is a ReadFrom, the handle receives WriteHeader(200) before the *)
(* copy, whether the copy then succeeds or fails: Code() is 200, the    *)
(* latency header was transmitted once and the handle never receives a  *)
(* second WriteHeader.                                                  *)
C17_ReadFromImplicitHeader ==
    trigger.op = "ReadFrom" =>
        /\ code = StatusOK
        /\ wroteHeader
        /\ \E i \in Outputs :
              /\ calls[i] = <<"WriteHeader", StatusOK>>
              /\ \A j \in Outputs : i <= j
        /\ Cardinality(CallsOf("WriteHeader")) = 1
        /\ Cardinality(WireLatency) = 1

C17_Witness ==
    /\ trigger.op = "ReadFrom"
    /\ \E i \in CallsOf("ReadFrom") : i = 2
    /\ body = <<>>
    /\ last.op = "WriteHeader"
    /\ last.c # code
    /\ code = StatusOK

(* C18: headerWritten is true exactly when a status code has been       *)
(* recorded, that code is the one forwarded to the handle, and          *)
(* Duration() holds the time that had elapsed at the transition.        *)
C18_CodeWithHeader ==
    /\ wroteHeader =>
          /\ code # 0
          /\ \E i \in CallsOf("WriteHeader") : calls[i] = <<"WriteHeader", code>>
          /\ duration = elapsed
    /\ ~wroteHeader =>
          /\ code = 0
          /\ duration = 0
          /\ CallsOf("WriteHeader") = {}

(* a step that is a call of one of the named methods on the writer *)
StepOf(ops) == nops' = nops + 1 /\ last'.op \in ops

(* C19: the writer starts header-pending; a WriteHeader, Write, Flush   *)
(* or ReadFrom moves it to header-sent; Hijack, Push, TeeWriter and     *)
(* Header leave the state as it is; nothing moves it back; and once     *)
(* header-sent no WriteHeader is forwarded to the handle any more.      *)
C19_TerminalTransition ==
    /\ ~wroteHeader
    /\ [][/\ wroteHeader => wroteHeader'
          /\ wroteHeader => CallsOf("WriteHeader")' = CallsOf("WriteHeader")
          /\ StepOf({"WriteHeader", "Write", "Flush", "ReadFrom"}) => wroteHeader'
          /\ StepOf({"Hijack", "Push", "TeeWriter", "Header"}) =>
                wroteHeader' = wroteHeader
          /\ wroteHeader' # wroteHeader => nops' = nops + 1
         ]_vars

C19_Witness ==
    /\ trigger.op = "Flush"
    /\ wroteHeader
    /\ last.op = "WriteHeader"
    /\ CallsOf("WriteHeader") = {}
    /\ nops = 3

(* C20: a ReadFrom delivers its bytes to the handle only: no tee sink   *)
(* receives a call or a byte, whichever sink is installed.              *)
C20_ReadFromBypassesTee ==
    [][StepOf({"ReadFrom"}) =>
          /\ UNCHANGED teeVars
          /\ body' = body \o SubSeq(last'.buf, 1, last'.n)
      ]_vars

C20_Witness ==
    /\ last.op = "ReadFrom"
    /\ last.err = Nil
    /\ installed # Nil
    /\ ~failed
    /\ teeBuf[installed] # <<>>
    /\ teeBuf[installed] = written
    /\ body = written \o last.buf

----------------------------------------------------------------------------
(* Package requests: the Timeout middleware (src/requests/middleware.go) *)

(* the writer is not in use *)
WriterIdle ==
    /\ caps = {}
    /\ protoMajor = 1
    /\ hdr = [k \in HeaderNames |-> <<>>]
    /\ wire = [k \in HeaderNames |-> <<>>]
    /\ wireSent = FALSE
    /\ calls = <<>>
    /\ body = <<>>
    /\ variant = "none"
    /\ start = 0
    /\ code = 0
    /\ duration = 0
    /\ wroteHeader = FALSE
    /\ headerName = ""
    /\ teeWriter = Nil
    /\ teeBuf = [s \in Sinks |-> <<>>]
    /\ teeCalls = <<>>
    /\ now = 0
    /\ last = NoCall
    /\ nops = 0
    /\ trigger = [op |-> "none", c |-> 0]
    /\ elapsed = 0
    /\ installed = Nil
    /\ teeExpect = [s \in Sinks |-> <<>>]
    /\ written = <<>>
    /\ failed = FALSE
    /\ copied = FALSE

(* a context without deadline: the request's own context *)
NoDeadline == -1

(* context.WithTimeout(parent, timeout) at time t: the deadline of the  *)
(* new context is t + timeout unless the parent's deadline is earlier   *)
WithTimeout(parent, t, timeout) ==
    IF parent # NoDeadline /\ parent < t + timeout THEN parent ELSE t + timeout

(* the stacks of Timeout middlewares: 1..MaxStack timeouts *)
TimeoutStacks ==
    UNION {[1..n -> 1..MaxTimeout] : n \in 1..MaxStack}

TmInit ==
    /\ tStack \in TimeoutStacks
    /\ tWork \in 1..MaxWork
    /\ tNow = 0
    /\ tPc = "mw"
    /\ tEntered = <<>>
    /\ tDeadline = <<>>
    /\ tStart = 0
    /\ tBranch = "none"
    /\ tCancels = 0

InitTimeout == WriterIdle /\ TmInit /\ LgIdle /\ AlIdle

(* Timeout that hands the request on with its old context *)
HandlerContext_Parent == NoDeadline

(* "r = r.WithContext(ctx)": the deadline of the context the handler    *)
(* finds in its request, the one the innermost Timeout made             *)
HandlerContext == tDeadline[Len(tDeadline)]

(* ctx.Done() of the handler's context is closed *)
DoneReady ==
    HandlerContext # NoDeadline /\ tNow >= HandlerContext

(* the channel of time.After(work) has fired *)
WorkReady == tNow >= tStart + tWork

(* the clock advances; a goroutine blocked in a select whose case is    *)
(* ready runs before it does                                            *)
TimePasses ==
    /\ UNCHANGED <<lgVars, alVars>>
    /\ tNow < MaxClock
    /\ ~(tPc = "select" /\ (DoneReady \/ WorkReady))
    /\ tPc # "done"
    /\ tNow' = tNow + 1
    /\ UNCHANGED <<tStack, tWork, tPc, tEntered, tDeadline, tStart, tBranch,
                   tCancels>>
    /\ UNCHANGED writerVars

(* Timeout: the middleware function up to next.ServeHTTP *)
TimeoutEnter ==
    /\ UNCHANGED <<lgVars, alVars>>
    /\ tPc = "mw"
    /\ Len(tEntered) < Len(tStack)
    /\ LET k == Len(tEntered) + 1
           parent == IF k = 1 THEN NoDeadline ELSE tDeadline[k - 1]
       IN  /\ tEntered' = Append(tEntered, tNow)
           /\ tDeadline' = Append(tDeadline, WithTimeout(parent, tNow, tStack[k]))
    /\ UNCHANGED <<tStack, tWork, tNow, tPc, tStart, tBranch, tCancels>>
    /\ UNCHANGED writerVars

(* the handler of the doc comment and of TestTimeout reaches its select *)
HandlerStart ==
    /\ UNCHANGED <<lgVars, alVars>>
    /\ tPc = "mw"
    /\ Len(tEntered) = Len(tStack)
    /\ tStart' = tNow
    /\ tPc' = "select"
    /\ UNCHANGED <<tStack, tWork, tNow, tEntered, tDeadline, tBranch, tCancels>>
    /\ UNCHANGED writerVars

(* select { case <-ctx.Done(): ... case <-time.After(work): ... } *)
HandlerSelect ==
    /\ UNCHANGED <<lgVars, alVars>>
    /\ tPc = "select"
    /\ \/ DoneReady /\ tBranch' = "cancelled"
       \/ WorkReady /\ tBranch' = "completed"
    /\ tPc' = "unwind"
    /\ UNCHANGED <<tStack, tWork, tNow, tEntered, tDeadline, tStart, tCancels>>
    /\ UNCHANGED writerVars

(* Timeout: "defer func() { cancel() }()" as next.ServeHTTP returns *)
TimeoutReturn ==
    /\ UNCHANGED <<lgVars, alVars>>
    /\ tPc = "unwind"
    /\ tCancels' = tCancels + 1
    /\ tPc' = IF tCancels + 1 = Len(tStack) THEN "done" ELSE "unwind"
    /\ UNCHANGED <<tStack, tWork, tNow, tEntered, tDeadline, tStart, tBranch>>
    /\ UNCHANGED writerVars

NextTimeout ==
    \/ TimePasses
    \/ TimeoutEnter
    \/ HandlerStart
    \/ HandlerSelect
    \/ TimeoutReturn

SpecTimeout == InitTimeout /\ [][NextTimeout]_vars

(* C11: under one Timeout(d), a handler whose work takes longer than d  *)
(* takes the ctx.Done() case of its select, and a handler whose work    *)
(* ends before d has elapsed since the middleware was entered takes the *)
(* completion case.                                                     *)
C11_TimeoutCancels ==
    (tBranch # "none" /\ Len(tStack) = 1) =>
        /\ tWork > tStack[1] => tBranch = "cancelled"
        /\ tStart + tWork < tEntered[1] + tStack[1] => tBranch = "completed"

C11_Witness ==
    /\ Len(tStack) = 1
    /\ tWork > tStack[1]
    /\ tBranch = "cancelled"
    /\ tNow = tEntered[1] + tStack[1]
    /\ tPc = "done"

(* C12: with Timeout applied twice, the context of the handler is       *)
(* cancelled at the moment the outermost Timeout set, whatever the two  *)
(* timeouts are.                                                        *)
C12_SecondTimeoutIgnored ==
    (Len(tStack) >= 2 /\ Len(tDeadline) = Len(tStack)) =>
        tDeadline[Len(tDeadline)] = tEntered[1] + tStack[1]

----------------------------------------------------------------------------
(* Package requests: AttachLogger and Log (src/requests/middleware.go)   *)

(* bytes of the bodies: a JSON text of arrays, the number 1 and spaces,  *)
(* or anything else written with these bytes                            *)
JsonChars == {"[", "]", "1", " "}

Bodies == UNION {[1..n -> JsonChars] : n \in 0..MaxBody}

(* chunks the handler writes as its response *)
RespChunks == {<<"1">>, <<"[", "1">>, <<"]">>}

(* json.Compact's scanner: b[i..] continues a valid JSON text, st being  *)
(* what is expected next and depth the number of open arrays            *)
RECURSIVE Scan(_, _, _, _)
Scan(b, i, st, depth) ==
    IF i > Len(b) THEN depth = 0 /\ st \in {"num", "after"}
    ELSE LET c == b[i]
         IN  CASE st \in {"val", "first"} ->
                    (CASE c = " " -> Scan(b, i + 1, st, depth)
                       [] c = "[" -> Scan(b, i + 1, "first", depth + 1)
                       [] c = "1" -> Scan(b, i + 1, "num", depth)
                       [] OTHER   -> st = "first" /\ Scan(b, i + 1, "after", depth - 1))
               [] OTHER ->
                    (CASE c = "1" -> st = "num" /\ Scan(b, i + 1, "num", depth)
                       [] c = " " -> Scan(b, i + 1, "after", depth)
                       [] c = "]" -> depth > 0 /\ Scan(b, i + 1, "after", depth - 1)
                       [] OTHER   -> FALSE)

(* json.Compact returns no error *)
ValidJSON(b) == Scan(b, 1, "val", 0)

(* json.Compact: the text without its insignificant space *)
Compact(b) == SelectSeq(b, LAMBDA c : c # " ")

Ellipsis == <<".", ".", ".">>

(* logBody that truncates to maxSize bytes and then adds the ellipsis *)
logBody_NoRoom(maxSize, b) ==
    IF ~ValidJSON(b) THEN [panic |-> TRUE, out |-> <<>>]
    ELSE LET buffer == Compact(b)
         IN  IF maxSize > 0 /\ Len(buffer) > maxSize
             THEN [panic |-> FALSE, out |-> SubSeq(buffer, 1, maxSize) \o Ellipsis]
             ELSE [panic |-> FALSE, out |-> buffer]

(* logBody(log, maxSize, body): panics when json.Compact fails and when  *)
(* bytes.Buffer.Truncate is given a negative length                     *)
logBody(maxSize, b) ==
    IF ~ValidJSON(b) THEN [panic |-> TRUE, out |-> <<>>]
    ELSE LET buffer == Compact(b)
         IN  IF maxSize > 0 /\ Len(buffer) > maxSize
             THEN IF maxSize - 3 < 0
                  THEN [panic |-> TRUE, out |-> <<>>]
                  ELSE [panic |-> FALSE,
                        out |-> SubSeq(buffer, 1, maxSize - 3) \o Ellipsis]
             ELSE [panic |-> FALSE, out |-> buffer]

(* the headers of the request and toLower's strings.ToLower of the keys *)
ReqHeader ==
    [k \in {"Authorization", "Content-Type", "Accept"} |->
        CASE k = "Authorization" -> <<"Bearer">>
          [] k = "Content-Type"  -> <<"json", "utf-8">>
          [] OTHER               -> <<>>]

ToLowerKey ==
    [k \in DOMAIN ReqHeader |->
        CASE k = "Authorization" -> "authorization"
          [] k = "Content-Type"  -> "content-type"
          [] OTHER               -> "accept"]

(* toLower(headers) *)
toLower(headers) ==
    [lk \in {ToLowerKey[k] : k \in DOMAIN headers} |->
        LET k == CHOOSE x \in DOMAIN headers : ToLowerKey[x] = lk
            v == headers[k]
        IN  IF Len(v) = 0 THEN <<"">>
            ELSE IF Len(v) = 1 THEN <<v[1]>>
            ELSE v]

(* method sets of the writers a handler under Log can be given: the     *)
(* writer of newWriter, a writer that keeps its body, a bare writer     *)
WriterKinds == {"instrumented", "recorder", "plain"}

Methods(kind) ==
    CASE kind = "instrumented" ->
            {"Header", "Write", "WriteHeader", "Code", "Duration", "TeeWriter"}
      [] kind = "recorder" ->
            {"Header", "Write", "WriteHeader", "Code", "Body"}
      [] OTHER -> {"Header", "Write", "WriteHeader"}

(* "ww, ok := w.(Response)" *)
IsResponse(kind) == {"Code", "Body"} \subseteq Methods(kind)

(* Log without the url field *)
RequestFields_NoURL ==
    << <<"method", <<"POST">>>>,
       <<"remote_address", <<"addr">>>>,
       <<"request_headers", toLower(ReqHeader)>> >>

(* Log: the fields of the second UpdateContext *)
RequestFields ==
    << <<"method", <<"POST">>>>,
       <<"remote_address", <<"addr">>>>,
       <<"url", <<"/">>>>,
       <<"request_headers", toLower(ReqHeader)>> >>

(* zerolog's Logger.UpdateContext: nothing on the disabled logger *)
UpdateContext(l, fields) == IF lgCtx = "own" THEN l \o fields ELSE l

LgInit ==
    /\ lgMax \in -1..MaxSize
    /\ lgSize = 0
    /\ lgAttached \in BOOLEAN
    /\ lgKind \in WriterKinds
    /\ lgReqBody \in Bodies
    /\ lgPc = "new"
    /\ lgPanic = "none"
    /\ lgCtx = "disabled"
    /\ lgLogger = <<>>
    /\ lgEvents = <<>>
    /\ lgResp = <<>>
    /\ lgOps = 0

InitLog == WriterIdle /\ TmIdle /\ LgInit /\ AlIdle

(* Log(maxBodySize): the default *)
LogNew ==
    /\ lgPc = "new"
    /\ lgSize' = IF lgMax = 0 THEN defaultMaxBodySize ELSE lgMax
    /\ lgPc' = IF lgAttached THEN "attach" ELSE "before"
    /\ UNCHANGED <<lgMax, lgAttached, lgKind, lgReqBody, lgPanic, lgCtx,
                   lgLogger, lgEvents, lgResp, lgOps>>
    /\ UNCHANGED <<writerVars, tmVars, alVars>>

(* AttachLogger: a copy of the logger goes into the request context *)
AttachLogger ==
    /\ lgPc = "attach"
    /\ lgLogger' = BaseFields
    /\ lgCtx' = "own"
    /\ lgPc' = "before"
    /\ UNCHANGED <<lgMax, lgSize, lgAttached, lgKind, lgReqBody, lgPanic,
                   lgEvents, lgResp, lgOps>>
    /\ UNCHANGED <<writerVars, tmVars, alVars>>

(* Log: the handler function up to next.ServeHTTP; reqID is what        *)
(* middleware.GetReqID returns, readErr whether ReadBody fails          *)
LogBefore(reqID, readErr) ==
    /\ lgPc = "before"
    /\ LET idField == IF reqID # "" THEN << <<"id", <<reqID>>>> >> ELSE <<>>
           l1 == UpdateContext(UpdateContext(lgLogger, idField), RequestFields)
           lb == logBody(lgSize, lgReqBody)
       IN  IF readErr
           THEN /\ lgLogger' = l1
                /\ lgPc' = "panic" /\ lgPanic' = "ReadBody"
           ELSE IF Len(lgReqBody) # 0 /\ lgCtx = "own"
           THEN IF lb.panic
                THEN /\ lgLogger' = l1
                     /\ lgPc' = "panic" /\ lgPanic' = "request"
                ELSE /\ lgLogger' = l1 \o << <<"request", lb.out>> >>
                     /\ lgPc' = "handler" /\ lgPanic' = lgPanic
           ELSE /\ lgLogger' = l1
                /\ lgPc' = "handler" /\ lgPanic' = lgPanic
    /\ UNCHANGED <<lgMax, lgSize, lgAttached, lgKind, lgReqBody, lgCtx,
                   lgEvents, lgResp, lgOps>>
    /\ UNCHANGED <<writerVars, tmVars, alVars>>

(* the handler emits an event on zerolog.Ctx(r.Context()) *)
HandlerEmit ==
    /\ lgPc = "handler" /\ lgOps < MaxHandlerOps
    /\ lgEvents' = IF lgCtx = "own" THEN Append(lgEvents, lgLogger) ELSE lgEvents
    /\ lgOps' = lgOps + 1
    /\ UNCHANGED <<lgMax, lgSize, lgAttached, lgKind, lgReqBody, lgPc, lgPanic,
                   lgCtx, lgLogger, lgResp>>
    /\ UNCHANGED <<writerVars, tmVars, alVars>>

(* the handler writes a chunk of its response *)
HandlerWrite(chunk) ==
    /\ lgPc = "handler" /\ lgOps < MaxHandlerOps
    /\ lgResp' = lgResp \o chunk
    /\ lgOps' = lgOps + 1
    /\ UNCHANGED <<lgMax, lgSize, lgAttached, lgKind, lgReqBody, lgPc, lgPanic,
                   lgCtx, lgLogger, lgEvents>>
    /\ UNCHANGED <<writerVars, tmVars, alVars>>

(* Log: the deferred function, run as the handler returns *)
LogDeferred ==
    /\ lgPc = "handler"
    /\ LET lb == logBody(lgSize, lgResp)
       IN  IF IsResponse(lgKind) /\ lgCtx = "own"
           THEN IF lb.panic
                THEN /\ lgPc' = "panic" /\ lgPanic' = "response"
                     /\ lgLogger' = lgLogger
                ELSE /\ lgPc' = "done" /\ lgPanic' = lgPanic
                     /\ lgLogger' = lgLogger \o << <<"response", lb.out>> >>
           ELSE /\ lgPc' = "done" /\ lgPanic' = lgPanic
                /\ lgLogger' = lgLogger
    /\ UNCHANGED <<lgMax, lgSize, lgAttached, lgKind, lgReqBody, lgCtx,
                   lgEvents, lgResp, lgOps>>
    /\ UNCHANGED <<writerVars, tmVars, alVars>>

NextLog ==
    \/ LogNew
    \/ AttachLogger
    \/ \E reqID \in {"", "r1"}, readErr \in BOOLEAN : LogBefore(reqID, readErr)
    \/ HandlerEmit
    \/ \E chunk \in RespChunks : HandlerWrite(chunk)
    \/ LogDeferred

SpecLog == InitLog /\ [][NextLog]_vars

(* fields of a logger context or of an event *)
HasField(l, key) == \E i \in 1..Len(l) : l[i][1] = key

FieldValues(l, key) == {l[i][2] : i \in {j \in 1..Len(l) : l[j][1] = key}}

(* the request went through AttachLogger and Log read its body *)
BodyRead ==
    /\ lgAttached
    /\ lgPc \in {"handler", "done", "panic"}
    /\ lgPanic # "ReadBody"

(* what the documentation of Log records for a body *)
Recorded(maxSize, b) ==
    LET buffer == Compact(b)
    IN  IF maxSize > 0 /\ Len(buffer) > maxSize
        THEN SubSeq(buffer, 1, maxSize - 3) \o Ellipsis
        ELSE buffer

(* C13: for every maxBodySize and every non-empty JSON body, the body    *)
(* Log records is the compacted body when it has at most maxBodySize    *)
(* bytes or maxBodySize is negative, its first maxBodySize-3 bytes and  *)
(* "..." otherwise, at most maxBodySize bytes in all; 0 stands for 8192 *)
C13_Truncates ==
    (BodyRead /\ Len(lgReqBody) # 0 /\ ValidJSON(lgReqBody)) =>
        /\ lgSize = (IF lgMax = 0 THEN 8192 ELSE lgMax)
        /\ FieldValues(lgLogger, "request") = {Recorded(lgSize, lgReqBody)}
        /\ \A v \in FieldValues(lgLogger, "request") :
               lgSize > 0 => Len(v) <= lgSize

(* C14: every event the handler emits carries method, url, remote       *)
(* address, headers and the non-empty request body, and none carries    *)
(* the response, which the logger has only once the handler returned    *)
C14_RequestBeforeHandler ==
    /\ \A i \in 1..Len(lgEvents) :
          /\ \A key \in {"method", "url", "remote_address", "request_headers"} :
                 HasField(lgEvents[i], key)
          /\ Len(lgReqBody) # 0 => HasField(lgEvents[i], "request")
          /\ ~HasField(lgEvents[i], "response")
    /\ HasField(lgLogger, "response") => lgPc = "done"

C14_Witness ==
    /\ lgPc = "done"
    /\ Len(lgEvents) > 0
    /\ Len(lgReqBody) # 0
    /\ HasField(lgLogger, "response")

(* C16: once the handler has returned, the log record of a request      *)
(* whose response went through the instrumented writer holds the        *)
(* response body                                                        *)
C16_ResponseRecorded ==
    (lgPc = "done" /\ lgAttached /\ lgKind = "instrumented"
        /\ ValidJSON(lgResp)) =>
        FieldValues(lgLogger, "response") = {Recorded(lgSize, lgResp)}

----------------------------------------------------------------------------
(* AttachLogger under concurrent requests (src/requests/middleware.go)   *)

(* the configured logger is heap cell 0, the logger made for request i  *)
(* is cell i                                                            *)
BaseLogger == 0

AlInit ==
    /\ alHeap = [c \in {BaseLogger} |-> BaseFields]
    /\ alPtr = [i \in Reqs |-> NoLogger]
    /\ alPc = [i \in Reqs |-> "mw"]
    /\ alEvents = [i \in Reqs |-> <<>>]
    /\ alOps = [i \in Reqs |-> 0]

InitAttach == WriterIdle /\ TmIdle /\ LgIdle /\ AlInit

(* AttachLogger that puts the configured logger itself in the context *)
With_Shared(i) == [cell |-> BaseLogger, heap |-> alHeap]

(* "l := log.With().Logger()": a new logger whose context is a copy of  *)
(* the configured logger's                                              *)
With(i) ==
    [cell |-> i,
     heap |-> [c \in DOMAIN alHeap \cup {i} |->
                  IF c = i THEN alHeap[BaseLogger] ELSE alHeap[c]]]

(* AttachLogger's handler for request i, up to next.ServeHTTP *)
AttachRequest(i) ==
    /\ alPc[i] = "mw"
    /\ LET l == With(i)
       IN  /\ alHeap' = l.heap
           /\ alPtr' = [alPtr EXCEPT ![i] = l.cell]
    /\ alPc' = [alPc EXCEPT ![i] = "handler"]
    /\ UNCHANGED <<alEvents, alOps>>
    /\ UNCHANGED <<writerVars, tmVars, lgVars>>

(* the handler of request i adds a field with UpdateContext to the      *)
(* logger of zerolog.Ctx(r.Context()); nothing happens on the disabled  *)
(* logger zerolog.Ctx gives when the context holds none                 *)
HandlerUpdate(i, n) ==
    /\ alPc[i] = "handler" /\ alOps[i] < MaxUpdates
    /\ alHeap' = IF alPtr[i] = NoLogger THEN alHeap
                 ELSE [alHeap EXCEPT ![alPtr[i]] = @ \o << <<"req", <<i, n>>>> >>]
    /\ alOps' = [alOps EXCEPT ![i] = @ + 1]
    /\ UNCHANGED <<alPtr, alPc, alEvents>>
    /\ UNCHANGED <<writerVars, tmVars, lgVars>>

(* the handler of request i emits an event *)
HandlerLog(i) ==
    /\ alPc[i] = "handler" /\ alOps[i] < MaxUpdates
    /\ alEvents' = IF alPtr[i] = NoLogger THEN alEvents
                   ELSE [alEvents EXCEPT ![i] = Append(@, alHeap[alPtr[i]])]
    /\ alOps' = [alOps EXCEPT ![i] = @ + 1]
    /\ UNCHANGED <<alHeap, alPtr, alPc>>
    /\ UNCHANGED <<writerVars, tmVars, lgVars>>

(* the handler of request i returns *)
HandlerReturn(i) ==
    /\ alPc[i] = "handler"
    /\ alPc' = [alPc EXCEPT ![i] = "done"]
    /\ UNCHANGED <<alHeap, alPtr, alEvents, alOps>>
    /\ UNCHANGED <<writerVars, tmVars, lgVars>>

AttachStep == \E i \in Reqs : AttachRequest(i)

UpdateStep == \E i \in Reqs, n \in 1..MaxUpdates : HandlerUpdate(i, n)

LogStep == \E i \in Reqs : HandlerLog(i)

ReturnStep == \E i \in Reqs : HandlerReturn(i)

NextAttach ==
    \/ AttachStep
    \/ UpdateStep
    \/ LogStep
    \/ ReturnStep

SpecAttach == InitAttach /\ [][NextAttach]_vars

(* fields request i may see: the configured ones and its own *)
OwnOrBase(l, i) ==
    \A k \in 1..Len(l) :
        IF l[k][1] = "req" THEN l[k][2][1] = i
        ELSE \E b \in 1..Len(BaseFields) : l[k] = BaseFields[b]

(* C15: the handler of every request finds an enabled logger in its     *)
(* context; the fields of the configured logger never change; the       *)
(* logger and the events of a request carry the configured fields and   *)
(* the fields that request added, never those of another request        *)
C15_OwnLoggerPerRequest ==
    /\ alHeap[BaseLogger] = BaseFields
    /\ \A i \in Reqs :
          alPc[i] \in {"handler", "done"} =>
              /\ alPtr[i] # NoLogger
              /\ OwnOrBase(alHeap[alPtr[i]], i)
              /\ \A e \in 1..Len(alEvents[i]) : OwnOrBase(alEvents[i][e], i)
              /\ \A b \in 1..Len(BaseFields) :
                     alHeap[alPtr[i]][b] = BaseFields[b]

C15_Witness ==
    /\ \A i \in Reqs :
          /\ alPc[i] = "handler"
          /\ Len(alEvents[i]) > 0
          /\ HasField(alEvents[i][1], "req")

====
